---- MODULE Spec2Model ----
(***************************************************************************)
(* Order acceptance, order status and ready-notification handling of the   *)
(* healthy-meal platform backend (backend/src/modules/orders).             *)
(*                                                                         *)
(* Documents of the Order and Notification collections are records; the    *)
(* _id of a document is its position in the collection, which is also its  *)
(* createdAt order.  The users, subscriptions and meals collections are    *)
(* only read by the order module.                                          *)
(***************************************************************************)
EXTENDS Integers, Sequences, FiniteSets, TLC

VARIABLES orders, notifications, subscriptions, today, resp, notifyLog, reqs, nodeEnv,
          call, draft, home, polling

\* what the backend holds: collections, clock, last reply, requests in flight
backendVars == <<orders, notifications, subscriptions, today, resp, notifyLog, reqs, nodeEnv>>

\* the last call of a tenant middleware or of the customer app and what it
\* did, the customer app's draft, its selection screen and its order polls
clientVars == <<call, draft, home, polling>>

vars == <<orders, notifications, subscriptions, today, resp, notifyLog, reqs, nodeEnv,
          call, draft, home, polling>>

(* ------------------------------ bounds --------------------------------- *)

MaxOrders == 2

MaxDay == 2

MaxNotifyCalls == 2

(* --------------------------- fixed collections ------------------------- *)

Null == [kind |-> "null"]

Restaurants == {"t1", "t2"}

\* user.model documents: customers and admins of the two restaurants
Users ==
  { [id |-> "c1", restaurantId |-> "t1", role |-> "customer"],
    [id |-> "c2", restaurantId |-> "t2", role |-> "customer"],
    [id |-> "a1", restaurantId |-> "t1", role |-> "admin"],
    [id |-> "a2", restaurantId |-> "t2", role |-> "admin"] }

\* req.user as decoded from a verified token; "c3" holds a token that is
\* still valid although its user document no longer exists
Credentials ==
  { [userId |-> u.id, role |-> u.role, restaurantId |-> u.restaurantId] : u \in Users }
  \cup { [userId |-> "c3", role |-> "customer", restaurantId |-> "t1"] }

CustomerCreds == { c \in Credentials : c.role = "customer" }

AdminCreds == { c \in Credentials : c.role = "admin" }

\* meal.model documents, by _id
Meals ==
  [ P1 |-> [restaurantId |-> "t1", category |-> "protein"],
    C1 |-> [restaurantId |-> "t1", category |-> "carb"],
    S1 |-> [restaurantId |-> "t1", category |-> "snack"],
    P2 |-> [restaurantId |-> "t2", category |-> "protein"],
    C2 |-> [restaurantId |-> "t2", category |-> "carb"] ]

\* a well-formed meal id that names no document
MissingMeal == "M0"

\* macros of a subscription, macroTargets of an order
MacroTargets(p, c) == [proteinGrams |-> p, carbsGrams |-> c]

\* the goals the order-review screen is built with
ReviewGoals == MacroTargets(120, 150)

\* subscription.model: plan, status and daily macro targets of a customer's
\* subscription
NoSubscription == [kind |-> "none"]

SubscriptionChoices ==
  { NoSubscription,
    [kind |-> "sub", status |-> "active", mealsPerDay |-> 1, includesSnack |-> FALSE,
     macros |-> ReviewGoals],
    [kind |-> "sub", status |-> "active", mealsPerDay |-> 2, includesSnack |-> TRUE,
     macros |-> MacroTargets(100, 200)],
    [kind |-> "sub", status |-> "paused", mealsPerDay |-> 1, includesSnack |-> TRUE,
     macros |-> MacroTargets(100, 200)] }

validStatuses == <<"received", "preparing", "ready", "completed">>

\* status values a PATCH body may carry: the four states, an unknown one and
\* a missing one
StatusInputs == {"received", "preparing", "ready", "completed", "cancelled", ""}

(* ------------------------ request bodies (POST /orders) ---------------- *)

Pair(p, c) == [proteinMeal |-> p, carbMeal |-> c]

SelectionChoices ==
  { << Pair("P1", "C1") >>,
    << Pair("P1", "C1"), Pair("P1", "C1") >>,
    << Pair("C1", "P1") >>,
    << Pair("P2", "C2") >> }

\* orderData.snackMeal || null
NoMeal == "none"

SnackChoices == { NoMeal, "S1", MissingMeal }

\* a body without macroTargets; {} is what the order then stores
NoTargets == [kind |-> "absent"]

EmptyTargets == [kind |-> "empty"]

\* a body field the service does not read and the client does not send
Absent == "absent"

\* every body also carries the totals the order schema requires
Bodies ==
  { [restaurantId |-> Absent, status |-> Absent,
     selections |-> s, snackMeal |-> k, macroTargets |-> NoTargets,
     customerId |-> Absent] :
      s \in SelectionChoices, k \in SnackChoices }

\* the body the selection flow of a customer of restaurant t submits
PlainBody(t) ==
  [restaurantId |-> Absent, status |-> Absent,
   selections |-> IF t = "t1" THEN << Pair("P1", "C1") >> ELSE << Pair("P2", "C2") >>,
   snackMeal |-> NoMeal,
   macroTargets |-> ReviewGoals,
   customerId |-> Absent]

\* bodies of a client that also sends a tenant, a customer, a status and
\* macro targets of its own choosing
ForgedFields ==
  { [restaurantId |-> Absent, status |-> Absent, customerId |-> Absent],
    [restaurantId |-> "t1", status |-> "completed", customerId |-> "c1"],
    [restaurantId |-> "t2", status |-> "completed", customerId |-> "c2"] }

ForgedBodies ==
  { [restaurantId |-> f.restaurantId, status |-> f.status,
     selections |-> << Pair("P1", "C1") >>, snackMeal |-> NoMeal, macroTargets |-> m,
     customerId |-> f.customerId] :
      m \in {NoTargets, ReviewGoals, MacroTargets(1, 1)}, f \in ForgedFields }

(* --------------------------- order numbers ----------------------------- *)

\* an orderNumber 'ORD' + digits + '#' is kept as its digit string

RECURSIVE ToDigits(_)
ToDigits(n) == IF n < 10 THEN <<n>> ELSE Append(ToDigits(n \div 10), n % 10)

RECURSIVE PadStart(_, _)
PadStart(d, w) == IF Len(d) >= w THEN d ELSE PadStart(<<0>> \o d, w)

RECURSIVE ParseInt(_)
ParseInt(d) == IF Len(d) = 0 THEN 0 ELSE 10 * ParseInt(SubSeq(d, 1, Len(d) - 1)) + d[Len(d)]

\* Order.findOne({ restaurantId }).sort({ createdAt: -1 }): index of the
\* restaurant's newest order, 0 when it has none
LastOrderOf(os, t) ==
  LET S == { i \in 1..Len(os) : os[i].restaurantId = t }
  IN IF S = {} THEN 0 ELSE CHOOSE i \in S : \A j \in S : j <= i

generateOrderNumber(os, t) ==
  LET last == LastOrderOf(os, t)
  IN IF last = 0 THEN <<0, 0, 0, 1>>
     ELSE PadStart(ToDigits(ParseInt(os[last].orderNumber) + 1), 4)

(* ----------------------------- responses ------------------------------- *)

\* errors thrown by the service: new Error(message) carries neither
\* statusCode nor code; a duplicate-key error of the driver carries code 11000
PlainError(m) == [statusCode |-> 0, code |-> "", message |-> m]

DuplicateKeyError == [statusCode |-> 0, code |-> "11000", message |-> "E11000"]

\* process.env.NODE_ENV of the deployment
NodeEnvs == {"production", "development"}

errorHandler(err, env) ==
  LET statusCode == IF err.statusCode # 0 THEN err.statusCode ELSE 500
  IN [http |-> statusCode,
      code |-> IF err.code # "" THEN err.code ELSE "INTERNAL_SERVER_ERROR",
      message |-> IF env = "production" /\ statusCode = 500
                  THEN "Internal server error" ELSE err.message,
      data |-> Null]

Success(h, d) == [http |-> h, code |-> "", message |-> "", data |-> d]

\* how the order id of a request relates to the caller's restaurant
Target(os, orderId, restaurantId) ==
  IF orderId \notin 1..Len(os) THEN "missing"
  ELSE IF os[orderId].restaurantId = restaurantId THEN "own" ELSE "foreign"

NoResp == [op |-> "none", target |-> "none", out |-> Success(0, Null)]

Reply(op, target, out) == [op |-> op, target |-> target, out |-> out]


(* ------------------------------ queries -------------------------------- *)

\* User.findOne({ _id: customerId, restaurantId, role: 'customer' })
FindCustomer(customerId, restaurantId) ==
  \E u \in Users : u.id = customerId /\ u.restaurantId = restaurantId /\ u.role = "customer"

\* the lookup as it would be without the restaurantId filter
FindOrderAnyTenant(os, orderId, restaurantId) ==
  IF orderId \in 1..Len(os) THEN orderId ELSE 0

\* Order.findOne({ _id: orderId, restaurantId }): the order's id, 0 when no
\* document matches
FindOrder(os, orderId, restaurantId) ==
  IF orderId \in 1..Len(os) /\ os[orderId].restaurantId = restaurantId THEN orderId ELSE 0

\* the lookup as it would be with a type no notification carries
FindNotificationWrongType(ns, orderId, customerId) ==
  LET S == { i \in 1..Len(ns) : /\ ns[i].orderId = orderId
                                /\ ns[i].customerId = customerId
                                /\ ns[i].type = "ready" }
  IN IF S = {} THEN 0 ELSE CHOOSE i \in S : \A j \in S : i <= j

\* Notification.findOne({ orderId, customerId, type: 'order_ready' }): the
\* first matching notification's id, 0 when there is none
FindNotification(ns, orderId, customerId) ==
  LET S == { i \in 1..Len(ns) : /\ ns[i].orderId = orderId
                                /\ ns[i].customerId = customerId
                                /\ ns[i].type = "order_ready" }
  IN IF S = {} THEN 0 ELSE CHOOSE i \in S : \A j \in S : i <= j

\* the index lookup as it would be without a unique index
NoUniqueIndex(os, num) == FALSE

\* the unique index on orderNumber spans all restaurants
OrderNumberTaken(os, num) == \E i \in 1..Len(os) : os[i].orderNumber = num

(* ------------------------------ documents ------------------------------ *)

\* the document as it would be if the body's fields were spread over it
NewOrderFromBody(restaurantId, customerId, orderNumber, orderDate, orderData) ==
  [restaurantId |-> IF orderData.restaurantId # Absent THEN orderData.restaurantId
                    ELSE restaurantId,
   customerId |-> IF orderData.customerId # Absent THEN orderData.customerId
                  ELSE customerId,
   orderNumber |-> orderNumber,
   orderDate |-> orderDate,
   status |-> IF orderData.status # Absent THEN orderData.status ELSE "received",
   selections |-> orderData.selections,
   snackMeal |-> orderData.snackMeal,
   macroTargets |-> IF orderData.macroTargets = NoTargets THEN EmptyTargets
                    ELSE orderData.macroTargets]

NewOrder(restaurantId, customerId, orderNumber, orderDate, orderData) ==
  [restaurantId |-> restaurantId,
   customerId |-> customerId,
   orderNumber |-> orderNumber,
   orderDate |-> orderDate,
   status |-> "received",
   selections |-> orderData.selections,
   snackMeal |-> orderData.snackMeal,
   macroTargets |-> IF orderData.macroTargets = NoTargets THEN EmptyTargets
                    ELSE orderData.macroTargets]

NewNotification(restaurantId, customerId, orderId) ==
  [restaurantId |-> restaurantId,
   customerId |-> customerId,
   orderId |-> orderId,
   type |-> "order_ready",
   isRead |-> FALSE]

(* --------------------- the service, request by request ----------------- *)

\* the insert as it would be if the document were written before the index
\* is consulted
InsertOrderWriteFirst(os, doc, env) ==
  IF OrderNumberTaken(os, doc.orderNumber)
  THEN [orders |-> Append(os, doc), out |-> errorHandler(DuplicateKeyError, env)]
  ELSE [orders |-> Append(os, doc),
        out |-> Success(201, [orderId |-> Len(os) + 1, status |-> doc.status])]

\* Order.create: rejected by the unique orderNumber index, else appended
InsertOrder(os, doc, env) ==
  IF OrderNumberTaken(os, doc.orderNumber)
  THEN [orders |-> os, out |-> errorHandler(DuplicateKeyError, env)]
  ELSE [orders |-> Append(os, doc),
        out |-> Success(201, [orderId |-> Len(os) + 1, status |-> doc.status])]

createOrder(os, customerId, restaurantId, orderData, day, env) ==
  IF ~FindCustomer(customerId, restaurantId)
  THEN [orders |-> os, out |-> errorHandler(PlainError("InvalidCustomer"), env)]
  ELSE InsertOrder(os, NewOrder(restaurantId, customerId,
                                generateOrderNumber(os, restaurantId), day, orderData), env)

\* the update as it would be if it rewrote the snapshot of the macro targets
updateOrderStatusAndTargets(os, orderId, restaurantId, newStatus, env) ==
  IF newStatus = ""
  THEN [orders |-> os,
        out |-> [http |-> 400, code |-> "", message |-> "StatusRequired", data |-> Null]]
  ELSE IF \A k \in 1..Len(validStatuses) : validStatuses[k] # newStatus
  THEN [orders |-> os, out |-> errorHandler(PlainError("InvalidStatus"), env)]
  ELSE IF FindOrder(os, orderId, restaurantId) = 0
  THEN [orders |-> os, out |-> errorHandler(PlainError("OrderNotFound"), env)]
  ELSE [orders |-> [os EXCEPT ![orderId].status = newStatus,
                              ![orderId].macroTargets = EmptyTargets],
        out |-> Success(200, [orderId |-> orderId, status |-> newStatus])]

\* controller updateStatus + service updateOrderStatus
updateOrderStatus(os, orderId, restaurantId, newStatus, env) ==
  IF newStatus = ""
  THEN [orders |-> os,
        out |-> [http |-> 400, code |-> "", message |-> "StatusRequired", data |-> Null]]
  ELSE IF \A k \in 1..Len(validStatuses) : validStatuses[k] # newStatus
  THEN [orders |-> os, out |-> errorHandler(PlainError("InvalidStatus"), env)]
  ELSE IF FindOrder(os, orderId, restaurantId) = 0
  THEN [orders |-> os, out |-> errorHandler(PlainError("OrderNotFound"), env)]
  ELSE [orders |-> [os EXCEPT ![orderId].status = newStatus],
        out |-> Success(200, [orderId |-> orderId, status |-> newStatus])]

sendReadyNotification(os, ns, orderId, restaurantId, env) ==
  IF FindOrder(os, orderId, restaurantId) = 0
  THEN [notifications |-> ns, out |-> errorHandler(PlainError("OrderNotFound"), env)]
  ELSE LET existing == FindNotification(ns, orderId, os[orderId].customerId)
       IN IF existing # 0
          THEN [notifications |-> ns,
                out |-> Success(200, [alreadyNotified |-> TRUE, notification |-> existing])]
          ELSE [notifications |->
                  Append(ns, NewNotification(restaurantId, os[orderId].customerId, orderId)),
                out |-> Success(200, [alreadyNotified |-> FALSE,
                                      notification |-> Len(ns) + 1])]

\* the update as it would be without the customerId filter
markAsReadAnyCustomer(ns, notificationId, customerId, restaurantId, env) ==
  IF /\ notificationId \in 1..Len(ns)
     /\ ns[notificationId].restaurantId = restaurantId
  THEN [notifications |-> [ns EXCEPT ![notificationId].isRead = TRUE],
        out |-> Success(200, [notification |-> notificationId])]
  ELSE [notifications |-> ns, out |-> errorHandler(PlainError("NotificationNotFound"), env)]

\* controller markAsRead + service markAsRead:
\* Notification.findOneAndUpdate({ _id, customerId, restaurantId }, { isRead: true })
markAsRead(ns, notificationId, customerId, restaurantId, env) ==
  IF /\ notificationId \in 1..Len(ns)
     /\ ns[notificationId].customerId = customerId
     /\ ns[notificationId].restaurantId = restaurantId
  THEN [notifications |-> [ns EXCEPT ![notificationId].isRead = TRUE],
        out |-> Success(200, [notification |-> notificationId])]
  ELSE [notifications |-> ns, out |-> errorHandler(PlainError("NotificationNotFound"), env)]

(* ----------------------------- middlewares ---------------------------- *)

\* req.user is undefined
NoUser == [userId |-> "", role |-> "", restaurantId |-> ""]

\* the platform actor; its token carries no restaurantId
SuperAdmin == [userId |-> "s1", role |-> "super_admin", restaurantId |-> ""]

\* Authorization headers: none, a scheme other than Bearer, 'Bearer ' with
\* nothing after it, an expired token, a token with a bad signature, and a
\* verified token with the credential it was signed for
Headers ==
  { [kind |-> k, user |-> NoUser] : k \in {"none", "basic", "bearer-empty", "expired", "tampered"} }
  \cup { [kind |-> "bearer", user |-> u] : u \in Credentials \cup {SuperAdmin} }

Unauthenticated(code) == [next |-> FALSE, http |-> 401, code |-> code, user |-> NoUser]

authMiddleware(header) ==
  IF header.kind = "none" THEN Unauthenticated("NO_TOKEN")
  ELSE IF header.kind = "basic" THEN Unauthenticated("INVALID_AUTH_FORMAT")
  ELSE IF header.kind = "bearer-empty" THEN Unauthenticated("NO_TOKEN")
  ELSE IF header.kind = "expired" THEN Unauthenticated("TOKEN_EXPIRED")
  ELSE IF header.kind = "tampered" THEN Unauthenticated("INVALID_TOKEN")
  ELSE [next |-> TRUE, http |-> 0, code |-> "", user |-> header.user]

\* the guard as it would be if it let every authenticated role through
requireAnyRole(allowedRoles, user) ==
  IF user = NoUser THEN [next |-> FALSE, http |-> 401, code |-> "UNAUTHORIZED"]
  ELSE [next |-> TRUE, http |-> 0, code |-> ""]

requireRole(allowedRoles, user) ==
  IF user = NoUser THEN [next |-> FALSE, http |-> 401, code |-> "UNAUTHORIZED"]
  ELSE IF user.role \notin allowedRoles
  THEN [next |-> FALSE, http |-> 403, code |-> "FORBIDDEN"]
  ELSE [next |-> TRUE, http |-> 0, code |-> ""]

\* req.tenantFilter: not set, {} or { restaurantId }
NoFilter == [kind |-> "unset"]

EmptyFilter == [kind |-> "all"]

TenantFilter(t) == [kind |-> "tenant", restaurantId |-> t]

\* a || b || c on strings, '' and undefined being falsy
FirstTruthy(a, b, c) == IF a # "" THEN a ELSE IF b # "" THEN b ELSE c

Halt(http, code) == [next |-> FALSE, http |-> http, code |-> code, tenantFilter |-> NoFilter]

Proceed(filter) == [next |-> TRUE, http |-> 0, code |-> "", tenantFilter |-> filter]

tenantMiddleware(req) ==
  IF req.user = NoUser THEN Halt(401, "UNAUTHORIZED")
  ELSE IF req.user.role = "super_admin" THEN Proceed(EmptyFilter)
  ELSE IF req.user.restaurantId = "" THEN Halt(500, "TENANT_ID_MISSING")
  ELSE Proceed(TenantFilter(req.user.restaurantId))

\* the strict middleware as it would be if the body's restaurantId won
requireTenantBodyFirst(req) ==
  IF req.user = NoUser THEN Halt(401, "UNAUTHORIZED")
  ELSE LET restaurantId ==
             IF req.user.role = "super_admin"
             THEN FirstTruthy(req.body, req.query, req.params)
             ELSE req.user.restaurantId
       IN IF restaurantId = ""
          THEN IF req.user.role = "super_admin" THEN Halt(400, "RESTAURANT_ID_REQUIRED")
               ELSE Halt(500, "TENANT_ID_MISSING")
          ELSE Proceed(TenantFilter(restaurantId))

requireTenantMiddleware(req) ==
  IF req.user = NoUser THEN Halt(401, "UNAUTHORIZED")
  ELSE LET restaurantId ==
             IF req.user.role = "super_admin"
             THEN FirstTruthy(req.params, req.query, req.body)
             ELSE req.user.restaurantId
       IN IF restaurantId = ""
          THEN IF req.user.role = "super_admin" THEN Halt(400, "RESTAURANT_ID_REQUIRED")
               ELSE Halt(500, "TENANT_ID_MISSING")
          ELSE Proceed(TenantFilter(restaurantId))

\* what a request may carry as restaurantId in params, query or body
RestaurantInputs == {"", "t1", "t2"}

\* req.user: absent, a credential, the platform actor, or an admin whose
\* token was signed without a restaurantId
UserContexts ==
  Credentials \cup {NoUser, SuperAdmin, [userId |-> "a3", role |-> "admin", restaurantId |-> ""]}

TenantRequests ==
  [user : UserContexts, params : RestaurantInputs, query : RestaurantInputs,
   body : RestaurantInputs]

NoCall == [op |-> "none"]

(* ------------------------ the order draft (client) -------------------- *)

\* plan.mealsPerDay of the subscription schema: min 1, max 5
MaxMealsPerDay == 5

Slot(p, c) == [protein |-> p, carb |-> c]

\* the service as constructed, and after reset()
EmptyDraft == [selections |-> <<>>, selectedSnack |-> NoMeal, snackSkipped |-> FALSE]

initSelections(d, mealsPerDay) ==
  [d EXCEPT !.selections = [k \in 1..mealsPerDay |-> Slot(NoMeal, NoMeal)]]

reset(d) == EmptyDraft

\* this.selections[index] is an object; index counts from 0
HasSlot(d, index) == index + 1 \in 1..Len(d.selections)

\* the method as it would be if it kept the carb
setProteinKeepCarb(d, index, meal) ==
  IF HasSlot(d, index)
  THEN [d EXCEPT !.selections[index + 1].protein = meal]
  ELSE d

setProtein(d, index, meal) ==
  IF HasSlot(d, index)
  THEN [d EXCEPT !.selections[index + 1].protein = meal,
                 !.selections[index + 1].carb = NoMeal]
  ELSE d

setCarb(d, index, meal) ==
  IF HasSlot(d, index)
  THEN [d EXCEPT !.selections[index + 1].carb = meal]
  ELSE d

\* reading .protein of undefined throws
isMealComplete(d, index) ==
  IF ~HasSlot(d, index) THEN "TypeError"
  ELSE IF d.selections[index + 1].protein # NoMeal /\ d.selections[index + 1].carb # NoMeal
  THEN "true" ELSE "false"

\* Array.prototype.every with the completeness test of isOrderComplete
RECURSIVE EveryComplete(_)
EveryComplete(sel) ==
  IF Len(sel) = 0 THEN TRUE
  ELSE IF Head(sel).protein # NoMeal /\ Head(sel).carb # NoMeal
  THEN EveryComplete(Tail(sel))
  ELSE FALSE

\* the getter as it would be if a chosen protein completed a slot
isOrderCompleteProteinOnly(d) ==
  \A k \in 1..Len(d.selections) : d.selections[k].protein # NoMeal

isOrderComplete(d) == EveryComplete(d.selections)

\* Meal objects handed to the draft
ProteinInputs == {"P1", "P2"}

CarbInputs == {"C1"}

SnackInputs == {"S1"}

\* slot indexes a caller may pass, up to one beyond the largest draft
IndexInputs == 0..MaxMealsPerDay

\* if (x) total += x.f, with the proteinGrams, carbsGrams and calories of
\* the Meal objects handed to the draft
Amount(meal, f) ==
  IF meal = NoMeal THEN 0
  ELSE IF meal = "P1" THEN [proteinGrams |-> 30, carbsGrams |-> 2, calories |-> 200][f]
  ELSE IF meal = "P2" THEN [proteinGrams |-> 25, carbsGrams |-> 4, calories |-> 180][f]
  ELSE IF meal = "C1" THEN [proteinGrams |-> 5, carbsGrams |-> 40, calories |-> 220][f]
  ELSE [proteinGrams |-> 3, carbsGrams |-> 15, calories |-> 90][f]

\* selections.forEach(meal => { if (meal.protein) ...; if (meal.carb) ... })
RECURSIVE SumSlots(_, _)
SumSlots(sel, f) ==
  IF Len(sel) = 0 THEN 0
  ELSE Amount(Head(sel).protein, f) + Amount(Head(sel).carb, f) + SumSlots(Tail(sel), f)

totalProtein(d) == SumSlots(d.selections, "proteinGrams") + Amount(d.selectedSnack, "proteinGrams")

totalCarbs(d) == SumSlots(d.selections, "carbsGrams") + Amount(d.selectedSnack, "carbsGrams")

totalCalories(d) == SumSlots(d.selections, "calories") + Amount(d.selectedSnack, "calories")

completedSelectionsCount(d) ==
  Cardinality({ k \in 1..Len(d.selections) : d.selections[k].protein # NoMeal })
    + Cardinality({ k \in 1..Len(d.selections) : d.selections[k].carb # NoMeal })

(* --------------------- the selection screen (client) ------------------- *)

\* largest mealsPerDay of the settings the selection screen is run with
MaxHomeMeals == 3

\* GET subscription settings: mealsPerDay and snackIncluded of the plan
SettingsChoices ==
  { [mealsPerDay |-> n, snackIncluded |-> b] : n \in 1..MaxHomeMeals, b \in BOOLEAN }

\* field initializers of CustomerHomeComponent; route "away" while no
\* component exists. carbMeals is "none" for the empty list, "latest" for
\* the list answered to the fetch issued last and "older" for the list
\* answered to a fetch issued before that one
AwayFromHome ==
  [snackIncluded |-> FALSE, route |-> "away", totalMeals |-> 2, currentMealIndex |-> 0,
   isSnackStep |-> FALSE, loadingSettings |-> FALSE, carbMeals |-> "none",
   loadingCarb |-> FALSE]

\* getSubscriptionSettings() returns of(settings), which runs the next
\* callback inside subscribe(): the settings are in place when the method
\* returns
loadSubscriptionSettings(h, settings) ==
  [h EXCEPT !.totalMeals = settings.mealsPerDay,
            !.snackIncluded = settings.snackIncluded,
            !.loadingSettings = FALSE]

isCurrentMealComplete(h, d) == isMealComplete(d, h.currentMealIndex)

isLastMeal(h) == h.currentMealIndex = h.totalMeals - 1

\* the getter as it would be without the completeness test
showNextMealButtonAlways(h, d) ==
  LET c == isCurrentMealComplete(h, d)
  IN IF c = "TypeError" THEN c
     ELSE IF ~isLastMeal(h) THEN "true" ELSE "false"

showNextMealButton(h, d) ==
  LET c == isCurrentMealComplete(h, d)
  IN IF c = "TypeError" THEN c
     ELSE IF c = "true" /\ ~isLastMeal(h) THEN "true" ELSE "false"

\* the getter as it would be without the test of the plan
showSnackButtonAnyPlan(h, d) ==
  LET c == isCurrentMealComplete(h, d)
  IN IF c = "TypeError" THEN c
     ELSE IF c = "true" /\ isLastMeal(h) THEN "true" ELSE "false"

showSnackButton(h, d) ==
  LET c == isCurrentMealComplete(h, d)
  IN IF c = "TypeError" THEN c
     ELSE IF c = "true" /\ isLastMeal(h) /\ h.snackIncluded THEN "true" ELSE "false"

showReviewButton(h, d) ==
  LET c == isCurrentMealComplete(h, d)
  IN IF c = "TypeError" THEN c
     ELSE IF c = "true" /\ isLastMeal(h) /\ ~h.snackIncluded THEN "true" ELSE "false"

canGoBack(h) == h.currentMealIndex > 0 \/ h.isSnackStep

proceedToNextMeal(h) ==
  IF ~isLastMeal(h) THEN [h EXCEPT !.currentMealIndex = h.currentMealIndex + 1] ELSE h

\* the method as it would be without the test of the first slot
goBackToPreviousMealUnguarded(h) ==
  IF h.isSnackStep
  THEN [h EXCEPT !.isSnackStep = FALSE, !.currentMealIndex = h.totalMeals - 1]
  ELSE [h EXCEPT !.currentMealIndex = h.currentMealIndex - 1]

goBackToPreviousMeal(h) ==
  IF h.isSnackStep
  THEN [h EXCEPT !.isSnackStep = FALSE, !.currentMealIndex = h.totalMeals - 1]
  ELSE IF h.currentMealIndex > 0
  THEN [h EXCEPT !.currentMealIndex = h.currentMealIndex - 1]
  ELSE h

proceedToSnack(h) == [h EXCEPT !.isSnackStep = TRUE]

\* the part of loadCarbMeals that runs before the response: the flag is set
\* and one more fetch is issued, so a list on display is no longer the
\* latest fetch's
loadCarbMeals(h) ==
  [h EXCEPT !.loadingCarb = TRUE,
            !.carbMeals = IF h.carbMeals = "none" THEN "none" ELSE "older"]

\* router.navigate(['/customer/order-review']): the review screen opens and
\* its ngOnInit navigates an incomplete draft back to the selection screen
openReview(h, d) ==
  IF isOrderComplete(d) THEN [h EXCEPT !.route = "review"] ELSE [h EXCEPT !.route = "away"]

\* home.html: the buttons of the action container are rendered when their
\* getter yields true
NextMealButtonShown(h, d) == h.route = "home" /\ showNextMealButton(h, d) = "true"

SnackButtonShown(h, d) == h.route = "home" /\ showSnackButton(h, d) = "true"

ReviewButtonShown(h, d) == h.route = "home" /\ showReviewButton(h, d) = "true"

BackButtonShown(h) == h.route = "home" /\ canGoBack(h)

\* home.html: a meal step offers the protein and carb lists, the snack step
\* offers the snack list and the skip button
MealListsShown(h) == h.route = "home" /\ ~h.isSnackStep

SnackListShown(h) == h.route = "home" /\ h.isSnackStep

(* ------------------------ the order poll (client) ---------------------- *)

\* visits to the my-orders view within one application session
MaxVisits == 3

\* CustomerOrdersService as constructed: stopPolling$ is a Subject that has
\* not completed, and nothing has subscribed to pollCurrentOrder()
NoPolls == [stopped |-> FALSE, subs |-> <<>>]

\* pollCurrentOrder().subscribe(...): takeUntil subscribes to stopPolling$; a
\* Subject that has completed only answers complete, which takeUntil
\* ignores, so the poll is then left without a notifier. startWith(0) makes
\* switchMap issue the first GET /orders/current at once
subscribePoll(pl) ==
  [pl EXCEPT !.subs = Append(@, [polls |-> TRUE, notified |-> ~pl.stopped,
                                 inFlight |-> TRUE, destroyed |-> FALSE, late |-> FALSE])]

\* stopPolling$.next() ends the polls that takeUntil attached to the Subject
\* and unsubscribes their request in flight; complete() stops the Subject,
\* after which next() and complete() do nothing
stopPolling(pl) ==
  IF pl.stopped THEN pl
  ELSE [stopped |-> TRUE,
        subs |-> [i \in 1..Len(pl.subs) |->
                    IF pl.subs[i].notified
                    THEN [pl.subs[i] EXCEPT !.polls = FALSE, !.inFlight = FALSE]
                    ELSE pl.subs[i]]]

\* the my-orders view is on screen
MyOrdersOpen(pl) == Len(pl.subs) > 0 /\ ~pl.subs[Len(pl.subs)].destroyed

(* ------------------------------- state --------------------------------- *)

CustomerIds == {"c1", "c2", "c3"}

OrderIds == 1..MaxOrders

Procs == {1, 2}

Idle == [pc |-> "idle"]

\* every customer that has a user document holds an active subscription
DefaultSubscriptions ==
  [c \in CustomerIds |->
     IF c = "c3" THEN NoSubscription
     ELSE [kind |-> "sub", status |-> "active", mealsPerDay |-> 1, includesSnack |-> FALSE,
           macros |-> ReviewGoals]]

Init ==
  /\ orders = <<>>
  /\ notifications = <<>>
  /\ subscriptions = DefaultSubscriptions
  /\ today = 1
  /\ resp = NoResp
  /\ notifyLog = <<>>
  /\ reqs = [p \in Procs |-> Idle]
  /\ nodeEnv \in NodeEnvs
  /\ call = NoCall
  /\ draft = EmptyDraft
  /\ home = AwayFromHome
  /\ polling = NoPolls

\* the subscriptions the admin screens may have left behind
InitAccept ==
  /\ orders = <<>>
  /\ notifications = <<>>
  /\ subscriptions \in { f \in [CustomerIds -> SubscriptionChoices] : f["c3"] = NoSubscription }
  /\ today = 1
  /\ resp = NoResp
  /\ notifyLog = <<>>
  /\ reqs = [p \in Procs |-> Idle]
  /\ nodeEnv \in NodeEnvs
  /\ call = NoCall
  /\ draft = EmptyDraft
  /\ home = AwayFromHome
  /\ polling = NoPolls

(* ----------------- requests that run without interleaving -------------- *)

\* POST /api/orders
CreateOrder(cred, body) ==
  /\ cred.role = "customer"
  /\ Len(orders) < MaxOrders
  /\ LET r == createOrder(orders, cred.userId, cred.restaurantId, body, today, nodeEnv)
     IN /\ orders' = r.orders
        /\ notifyLog' = IF Len(r.orders) > Len(orders) THEN Append(notifyLog, <<>>)
                        ELSE notifyLog
        /\ resp' = Reply("createOrder", "none", r.out)
  /\ UNCHANGED <<notifications, subscriptions, today, reqs, nodeEnv, clientVars>>

\* PATCH /api/orders/:id/status
UpdateOrderStatus(cred, id, newStatus) ==
  /\ cred.role = "admin"
  /\ LET r == updateOrderStatus(orders, id, cred.restaurantId, newStatus, nodeEnv)
     IN /\ orders' = r.orders
        /\ resp' = Reply("updateStatus", Target(orders, id, cred.restaurantId), r.out)
  /\ UNCHANGED <<notifications, subscriptions, today, notifyLog, reqs, nodeEnv, clientVars>>

\* POST /api/orders/:id/notify
SendReadyNotification(cred, id) ==
  /\ cred.role = "admin"
  /\ id \in 1..Len(notifyLog) => Len(notifyLog[id]) < MaxNotifyCalls
  /\ LET r == sendReadyNotification(orders, notifications, id, cred.restaurantId, nodeEnv)
     IN /\ notifications' = r.notifications
        /\ resp' = Reply("notify", Target(orders, id, cred.restaurantId), r.out)
        /\ notifyLog' = IF r.out.http = 200
                        THEN [notifyLog EXCEPT ![id] = Append(@, r.out.data.alreadyNotified)]
                        ELSE notifyLog
  /\ UNCHANGED <<orders, subscriptions, today, reqs, nodeEnv, clientVars>>

\* midnight passes: new Date() yields the next orderDate
Tick ==
  /\ today < MaxDay
  /\ today' = today + 1
  /\ UNCHANGED <<orders, notifications, subscriptions, resp, notifyLog, reqs, nodeEnv, clientVars>>

SubmitOrder == \E cred \in CustomerCreds, body \in Bodies : CreateOrder(cred, body)

PlaceOrder == \E cred \in CustomerCreds : CreateOrder(cred, PlainBody(cred.restaurantId))

UpdateStatus ==
  \E cred \in AdminCreds, id \in OrderIds, st \in StatusInputs : UpdateOrderStatus(cred, id, st)

NotifyReady == \E cred \in AdminCreds, id \in OrderIds : SendReadyNotification(cred, id)

\* the acceptance pipeline on arbitrary submissions
NextAccept == SubmitOrder \/ Tick

SpecAccept == InitAccept /\ [][NextAccept]_vars

\* the life of accepted orders, one request after the other
Next == PlaceOrder \/ UpdateStatus \/ NotifyReady

Spec == Init /\ [][Next]_vars

(* ------------------------- reading notifications ----------------------- *)

\* PATCH /api/notifications/:id/read
MarkAsRead(cred, id) ==
  /\ cred.role = "customer"
  /\ LET r == markAsRead(notifications, id, cred.userId, cred.restaurantId, nodeEnv)
     IN /\ notifications' = r.notifications
        /\ resp' = Reply("markAsRead", "none", r.out)
  /\ call' = [op |-> "markAsRead", user |-> cred, id |-> id]
  /\ UNCHANGED <<orders, subscriptions, today, notifyLog, reqs, nodeEnv, draft, home, polling>>

NextRead ==
  \/ PlaceOrder
  \/ NotifyReady
  \/ \E cred \in CustomerCreds, id \in 1..(MaxOrders + 1) : MarkAsRead(cred, id)

SpecRead == Init /\ [][NextRead]_vars

(* -------------- requests interleaved at their await points ------------- *)

InFlightCreates == Cardinality({ p \in Procs : reqs[p].pc \in {"generate", "insert"} })

\* createOrder up to its first await: User.findOne
CreateFindCustomer(p, cred, body) ==
  /\ cred.role = "customer"
  /\ reqs[p] = Idle
  /\ Len(orders) + InFlightCreates < MaxOrders
  /\ IF FindCustomer(cred.userId, cred.restaurantId)
     THEN /\ reqs' = [reqs EXCEPT ![p] = [pc |-> "generate", cred |-> cred, body |-> body]]
          /\ UNCHANGED resp
     ELSE /\ resp' = Reply("createOrder", "none",
                           errorHandler(PlainError("InvalidCustomer"), nodeEnv))
          /\ UNCHANGED reqs
  /\ UNCHANGED <<orders, notifications, subscriptions, today, notifyLog, nodeEnv, clientVars>>

\* await Order.generateOrderNumber(restaurantId)
CreateGenerate(p) ==
  /\ reqs[p].pc = "generate"
  /\ reqs' = [reqs EXCEPT ![p] =
                [pc |-> "insert", cred |-> reqs[p].cred, body |-> reqs[p].body,
                 orderNumber |-> generateOrderNumber(orders, reqs[p].cred.restaurantId)]]
  /\ UNCHANGED <<orders, notifications, subscriptions, today, resp, notifyLog, nodeEnv, clientVars>>

\* await Order.create(...) and the reply
CreateInsert(p) ==
  /\ reqs[p].pc = "insert"
  /\ LET q == reqs[p]
         r == InsertOrder(orders, NewOrder(q.cred.restaurantId, q.cred.userId,
                                           q.orderNumber, today, q.body), nodeEnv)
     IN /\ orders' = r.orders
        /\ notifyLog' = IF Len(r.orders) > Len(orders) THEN Append(notifyLog, <<>>)
                        ELSE notifyLog
        /\ resp' = Reply("createOrder", "none", r.out)
  /\ reqs' = [reqs EXCEPT ![p] = Idle]
  /\ UNCHANGED <<notifications, subscriptions, today, nodeEnv, clientVars>>

\* sendReadyNotification up to its first await: Order.findOne
NotifyFindOrder(p, cred, id) ==
  /\ cred.role = "admin"
  /\ reqs[p] = Idle
  /\ IF FindOrder(orders, id, cred.restaurantId) # 0
     THEN /\ reqs' = [reqs EXCEPT ![p] =
                        [pc |-> "lookup", cred |-> cred, id |-> id,
                         customerId |-> orders[id].customerId]]
          /\ UNCHANGED resp
     ELSE /\ resp' = Reply("notify", Target(orders, id, cred.restaurantId),
                           errorHandler(PlainError("OrderNotFound"), nodeEnv))
          /\ UNCHANGED reqs
  /\ UNCHANGED <<orders, notifications, subscriptions, today, notifyLog, nodeEnv, clientVars>>

\* await Notification.findOne(...)
NotifyLookup(p) ==
  /\ reqs[p].pc = "lookup"
  /\ LET q == reqs[p]
         existing == FindNotification(notifications, q.id, q.customerId)
     IN IF existing # 0
        THEN /\ resp' = Reply("notify", "own",
                              Success(200, [alreadyNotified |-> TRUE,
                                            notification |-> existing]))
             /\ reqs' = [reqs EXCEPT ![p] = Idle]
        ELSE /\ reqs' = [reqs EXCEPT ![p] =
                           [pc |-> "create", cred |-> q.cred, id |-> q.id,
                            customerId |-> q.customerId]]
             /\ UNCHANGED resp
  /\ UNCHANGED <<orders, notifications, subscriptions, today, notifyLog, nodeEnv, clientVars>>

\* await Notification.create(...) and the reply
NotifyCreate(p) ==
  /\ reqs[p].pc = "create"
  /\ LET q == reqs[p]
     IN /\ notifications' =
             Append(notifications, NewNotification(q.cred.restaurantId, q.customerId, q.id))
        /\ resp' = Reply("notify", "own",
                         Success(200, [alreadyNotified |-> FALSE,
                                       notification |-> Len(notifications) + 1]))
  /\ reqs' = [reqs EXCEPT ![p] = Idle]
  /\ UNCHANGED <<orders, subscriptions, today, notifyLog, nodeEnv, clientVars>>

BeginCreate ==
  \E p \in Procs, cred \in CustomerCreds :
     CreateFindCustomer(p, cred, PlainBody(cred.restaurantId))

StepGenerate == \E p \in Procs : CreateGenerate(p)

StepInsert == \E p \in Procs : CreateInsert(p)

BeginNotify == \E p \in Procs, cred \in AdminCreds, id \in OrderIds : NotifyFindOrder(p, cred, id)

StepLookup == \E p \in Procs : NotifyLookup(p)

StepCreate == \E p \in Procs : NotifyCreate(p)

NextConc ==
  \/ BeginCreate \/ StepGenerate \/ StepInsert
  \/ BeginNotify \/ StepLookup \/ StepCreate

SpecConc == Init /\ [][NextConc]_vars

(* ------------------- submissions with fields of their own -------------- *)

\* POST /api/orders, keeping what was sent
PostForged(cred, body) ==
  /\ cred.role = "customer"
  /\ Len(orders) < MaxOrders
  /\ LET r == createOrder(orders, cred.userId, cred.restaurantId, body, today, nodeEnv)
     IN /\ orders' = r.orders
        /\ notifyLog' = IF Len(r.orders) > Len(orders) THEN Append(notifyLog, <<>>)
                        ELSE notifyLog
        /\ resp' = Reply("createOrder", "none", r.out)
  /\ call' = [op |-> "createOrder", user |-> cred, body |-> body]
  /\ UNCHANGED <<notifications, subscriptions, today, reqs, nodeEnv, draft, home, polling>>

NextTrust ==
  \/ \E cred \in CustomerCreds, body \in ForgedBodies : PostForged(cred, body)
  \/ Tick

SpecTrust == InitAccept /\ [][NextTrust]_vars

(* ------------------- the order routes behind their guards -------------- *)

\* res.status(...).json(...) of a middleware
Denied(g) == [http |-> g.http, code |-> g.code, message |-> "denied", data |-> Null]

\* router.post('/', authMiddleware, requireRole(['customer']), createOrder)
postOrder(os, header, body, day, env) ==
  LET a == authMiddleware(header)
      g == requireRole({"customer"}, a.user)
  IN IF ~a.next THEN [orders |-> os, out |-> Denied(a)]
     ELSE IF ~g.next THEN [orders |-> os, out |-> Denied(g)]
     ELSE createOrder(os, a.user.userId, a.user.restaurantId, body, day, env)

\* router.patch('/:id/status', authMiddleware, requireRole(['admin']), updateStatus)
patchStatus(os, header, id, newStatus, env) ==
  LET a == authMiddleware(header)
      g == requireRole({"admin"}, a.user)
  IN IF ~a.next THEN [orders |-> os, out |-> Denied(a)]
     ELSE IF ~g.next THEN [orders |-> os, out |-> Denied(g)]
     ELSE updateOrderStatus(os, id, a.user.restaurantId, newStatus, env)

\* router.post('/:id/notify', authMiddleware, requireRole(['admin']), notifyReady)
postNotify(os, ns, header, id, env) ==
  LET a == authMiddleware(header)
      g == requireRole({"admin"}, a.user)
  IN IF ~a.next THEN [notifications |-> ns, out |-> Denied(a)]
     ELSE IF ~g.next THEN [notifications |-> ns, out |-> Denied(g)]
     ELSE sendReadyNotification(os, ns, id, a.user.restaurantId, env)

\* status values the admin screen sends
RouteStatusInputs == {"ready", "completed"}

\* how the order id relates to the caller, once the caller is known
RouteTarget(os, header, id) ==
  IF authMiddleware(header).next THEN Target(os, id, header.user.restaurantId) ELSE "none"

HttpPostOrder(header, body) ==
  /\ Len(orders) < MaxOrders
  /\ LET r == postOrder(orders, header, body, today, nodeEnv)
     IN /\ orders' = r.orders
        /\ notifyLog' = IF Len(r.orders) > Len(orders) THEN Append(notifyLog, <<>>)
                        ELSE notifyLog
        /\ resp' = Reply("createOrder", "none", r.out)
  /\ UNCHANGED <<notifications, subscriptions, today, reqs, nodeEnv, clientVars>>

HttpPatchStatus(header, id, newStatus) ==
  /\ LET r == patchStatus(orders, header, id, newStatus, nodeEnv)
     IN /\ orders' = r.orders
        /\ resp' = Reply("updateStatus", RouteTarget(orders, header, id), r.out)
  /\ UNCHANGED <<notifications, subscriptions, today, notifyLog, reqs, nodeEnv, clientVars>>

HttpPostNotify(header, id) ==
  /\ id \in 1..Len(notifyLog) => Len(notifyLog[id]) < MaxNotifyCalls
  /\ LET r == postNotify(orders, notifications, header, id, nodeEnv)
     IN /\ notifications' = r.notifications
        /\ resp' = Reply("notify", RouteTarget(orders, header, id), r.out)
        /\ notifyLog' = IF r.out.http = 200
                        THEN [notifyLog EXCEPT ![id] = Append(@, r.out.data.alreadyNotified)]
                        ELSE notifyLog
  /\ UNCHANGED <<orders, subscriptions, today, reqs, nodeEnv, clientVars>>

NextRoutes ==
  \/ \E header \in Headers : HttpPostOrder(header, PlainBody(header.user.restaurantId))
  \/ \E header \in Headers, id \in OrderIds, st \in RouteStatusInputs :
        HttpPatchStatus(header, id, st)
  \/ \E header \in Headers, id \in OrderIds : HttpPostNotify(header, id)

SpecRoutes == Init /\ [][NextRoutes]_vars

(* ---------------------- tenant middlewares on requests ----------------- *)

ScopeRequest(req) ==
  /\ call' = [op |-> "tenantMiddleware", req |-> req, out |-> tenantMiddleware(req)]
  /\ UNCHANGED <<backendVars, draft, home, polling>>

ScopeRequestStrictly(req) ==
  /\ call' = [op |-> "requireTenantMiddleware", req |-> req,
              out |-> requireTenantMiddleware(req)]
  /\ UNCHANGED <<backendVars, draft, home, polling>>

NextTenant ==
  \/ \E req \in TenantRequests : ScopeRequest(req)
  \/ \E req \in TenantRequests : ScopeRequestStrictly(req)

SpecTenant == Init /\ [][NextTenant]_vars

(* --------------------- the draft service, call by call ----------------- *)

DraftInit(mealsPerDay) ==
  /\ draft' = initSelections(draft, mealsPerDay)
  /\ call' = [op |-> "initSelections", mealsPerDay |-> mealsPerDay]
  /\ UNCHANGED <<backendVars, home, polling>>

DraftSetProtein(index, meal) ==
  /\ draft' = setProtein(draft, index, meal)
  /\ call' = [op |-> "setProtein", index |-> index, meal |-> meal,
              carbBefore |-> IF HasSlot(draft, index) THEN draft.selections[index + 1].carb
                             ELSE NoMeal]
  /\ UNCHANGED <<backendVars, home, polling>>

DraftSetCarb(index, meal) ==
  /\ draft' = setCarb(draft, index, meal)
  /\ call' = [op |-> "setCarb"]
  /\ UNCHANGED <<backendVars, home, polling>>

\* orderDraft.selectedSnack = meal
DraftSelectSnack(meal) ==
  /\ draft' = [draft EXCEPT !.selectedSnack = meal]
  /\ call' = [op |-> "selectSnack"]
  /\ UNCHANGED <<backendVars, home, polling>>

\* orderDraft.selectedSnack = null; orderDraft.snackSkipped = true
DraftSkipSnack ==
  /\ draft' = [draft EXCEPT !.selectedSnack = NoMeal, !.snackSkipped = TRUE]
  /\ call' = [op |-> "skipSnack"]
  /\ UNCHANGED <<backendVars, home, polling>>

DraftReset ==
  /\ draft' = reset(draft)
  /\ call' = [op |-> "reset"]
  /\ UNCHANGED <<backendVars, home, polling>>

NextDraft ==
  \/ \E n \in 1..MaxMealsPerDay : DraftInit(n)
  \/ \E i \in IndexInputs, meal \in ProteinInputs : DraftSetProtein(i, meal)
  \/ \E i \in IndexInputs, meal \in CarbInputs : DraftSetCarb(i, meal)
  \/ \E meal \in SnackInputs : DraftSelectSnack(meal)
  \/ DraftSkipSnack
  \/ DraftReset

SpecDraft == Init /\ [][NextDraft]_vars

(* ------------------- the selection screen, click by click -------------- *)

\* the router creates the component and runs ngOnInit, which loads the
\* settings and initializes the shared draft
\* responses to fetches of a component that was left reach that component
\* only, so its requests are dropped here
OpenHome(settings) ==
  /\ home.route # "home"
  /\ home' = loadSubscriptionSettings([AwayFromHome EXCEPT !.route = "home"], settings)
  /\ draft' = initSelections(draft, settings.mealsPerDay)
  /\ reqs' = [p \in Procs |-> Idle]
  /\ call' = [op |-> "ngOnInit"]
  /\ UNCHANGED <<orders, notifications, subscriptions, today, resp, notifyLog, nodeEnv, polling>>

\* selectProtein: setProtein, then loadCarbMeals issues GET /meals on a
\* free connection; the fetches already in flight are no longer the latest
SelectProtein(meal) ==
  /\ MealListsShown(home)
  /\ \E p \in Procs :
       /\ reqs[p] = Idle
       /\ \A q \in Procs : q < p => reqs[q] # Idle
       /\ reqs' = [q \in Procs |->
                     IF q = p THEN [pc |-> "getMeals", latest |-> TRUE]
                     ELSE IF reqs[q] = Idle THEN Idle
                     ELSE [reqs[q] EXCEPT !.latest = FALSE]]
  /\ draft' = setProtein(draft, home.currentMealIndex, meal)
  /\ home' = loadCarbMeals(home)
  /\ call' = [op |-> "selectProtein"]
  /\ UNCHANGED <<orders, notifications, subscriptions, today, resp, notifyLog, nodeEnv, polling>>

\* the next callback of loadCarbMeals runs for the fetch on connection p
CarbMealsArrive(p) ==
  /\ home.route = "home"
  /\ reqs[p] # Idle
  /\ home' = [home EXCEPT !.carbMeals = IF reqs[p].latest THEN "latest" ELSE "older",
                          !.loadingCarb = FALSE]
  /\ reqs' = [reqs EXCEPT ![p] = Idle]
  /\ call' = [op |-> "carbMealsLoaded"]
  /\ UNCHANGED <<orders, notifications, subscriptions, today, resp, notifyLog, nodeEnv, draft, polling>>

SelectCarb(meal) ==
  /\ MealListsShown(home)
  /\ draft' = setCarb(draft, home.currentMealIndex, meal)
  /\ call' = [op |-> "selectCarb"]
  /\ UNCHANGED <<backendVars, home, polling>>

ProceedToNextMeal ==
  /\ NextMealButtonShown(home, draft)
  /\ home' = proceedToNextMeal(home)
  /\ call' = [op |-> "proceedToNextMeal", from |-> home.currentMealIndex]
  /\ UNCHANGED <<backendVars, draft, polling>>

GoBackToPreviousMeal ==
  /\ BackButtonShown(home)
  /\ home' = goBackToPreviousMeal(home)
  /\ call' = [op |-> "goBackToPreviousMeal", from |-> home.currentMealIndex,
              fromSnack |-> home.isSnackStep]
  /\ UNCHANGED <<backendVars, draft, polling>>

ProceedToSnack ==
  /\ SnackButtonShown(home, draft)
  /\ home' = proceedToSnack(home)
  /\ call' = [op |-> "proceedToSnack"]
  /\ UNCHANGED <<backendVars, draft, polling>>

SelectSnack(meal) ==
  /\ SnackListShown(home)
  /\ draft' = [draft EXCEPT !.selectedSnack = meal]
  /\ home' = openReview(home, draft')
  /\ call' = [op |-> "selectSnack", meal |-> meal]
  /\ UNCHANGED <<backendVars, polling>>

\* the method as it would be if it left a chosen snack in the draft
SkipSnackKeepingSnack ==
  /\ SnackListShown(home)
  /\ draft' = [draft EXCEPT !.snackSkipped = TRUE]
  /\ home' = openReview(home, draft')
  /\ call' = [op |-> "skipSnack"]
  /\ UNCHANGED <<backendVars, polling>>

SkipSnack ==
  /\ SnackListShown(home)
  /\ draft' = [draft EXCEPT !.selectedSnack = NoMeal, !.snackSkipped = TRUE]
  /\ home' = openReview(home, draft')
  /\ call' = [op |-> "skipSnack"]
  /\ UNCHANGED <<backendVars, polling>>

ProceedToReview ==
  /\ ReviewButtonShown(home, draft)
  /\ home' = openReview(home, draft)
  /\ call' = [op |-> "proceedToReview"]
  /\ UNCHANGED <<backendVars, draft, polling>>

NextHome ==
  \/ \E settings \in SettingsChoices : OpenHome(settings)
  \/ \E meal \in ProteinInputs : SelectProtein(meal)
  \/ \E p \in Procs : CarbMealsArrive(p)
  \/ \E meal \in CarbInputs : SelectCarb(meal)
  \/ ProceedToNextMeal
  \/ GoBackToPreviousMeal
  \/ ProceedToSnack
  \/ \E meal \in SnackInputs : SelectSnack(meal)
  \/ SkipSnack
  \/ ProceedToReview

SpecHome == Init /\ [][NextHome]_vars

(* --------------------- the my-orders view and its poll ----------------- *)

\* CustomerMyOrdersComponent.ngOnInit
OpenMyOrders ==
  /\ ~MyOrdersOpen(polling)
  /\ Len(polling.subs) < MaxVisits
  /\ polling' = subscribePoll(polling)
  /\ call' = [op |-> "myOrders.ngOnInit"]
  /\ UNCHANGED <<backendVars, draft, home>>

\* CustomerMyOrdersComponent.ngOnDestroy
CloseMyOrders ==
  /\ MyOrdersOpen(polling)
  /\ polling' = stopPolling([polling EXCEPT !.subs[Len(polling.subs)].destroyed = TRUE])
  /\ call' = [op |-> "myOrders.ngOnDestroy"]
  /\ UNCHANGED <<backendVars, draft, home>>

\* interval(10000) fires for the poll of visit i: switchMap drops the request
\* in flight and issues GET /orders/current again
PollInterval(i) ==
  /\ polling.subs[i].polls
  /\ polling' = [polling EXCEPT !.subs[i].inFlight = TRUE,
                                !.subs[i].late = @ \/ polling.subs[i].destroyed]
  /\ call' = [op |-> "getCurrentOrder"]
  /\ UNCHANGED <<backendVars, draft, home>>

\* the response reaches the next callback of visit i
PollResponse(i) ==
  /\ polling.subs[i].inFlight
  /\ polling' = [polling EXCEPT !.subs[i].inFlight = FALSE]
  /\ call' = [op |-> "currentOrderLoaded"]
  /\ UNCHANGED <<backendVars, draft, home>>

NextPoll ==
  \/ OpenMyOrders
  \/ CloseMyOrders
  \/ \E i \in 1..Len(polling.subs) : PollInterval(i)
  \/ \E i \in 1..Len(polling.subs) : PollResponse(i)

SpecPoll == Init /\ [][NextPoll]_vars

(* ------------------------------ properties ----------------------------- *)

OrdersFor(os, restaurantId, customerId, orderDate) ==
  { i \in 1..Len(os) : /\ os[i].restaurantId = restaurantId
                        /\ os[i].customerId = customerId
                        /\ os[i].orderDate = orderDate }

ReadyNotificationsFor(ns, orderId) ==
  { i \in 1..Len(ns) : ns[i].orderId = orderId /\ ns[i].type = "order_ready" }

Rank(st) == CHOOSE k \in 1..Len(validStatuses) : validStatuses[k] = st

\* C1: a createOrder by a customer who already has an order for today in
\* their restaurant is rejected with ORDER_ALREADY_EXISTS (409), and exactly
\* one order exists for that (restaurant, customer, date) afterwards.
C1_SecondOrderRejected ==
  [][\A cred \in CustomerCreds, body \in Bodies :
       (/\ OrdersFor(orders, cred.restaurantId, cred.userId, today) # {}
        /\ CreateOrder(cred, body))
       => /\ resp'.out.http = 409
          /\ resp'.out.code = "ORDER_ALREADY_EXISTS"
          /\ Cardinality(OrdersFor(orders', cred.restaurantId, cred.userId, today)) = 1]_vars

\* C2: whatever the interleaving of concurrent createOrder requests, no two
\* persisted orders share (restaurant, customer, date).
C2_OneOrderPerCustomerDay ==
  \A i, j \in 1..Len(orders) :
     (/\ orders[i].restaurantId = orders[j].restaurantId
      /\ orders[i].customerId = orders[j].customerId
      /\ orders[i].orderDate = orders[j].orderDate) => i = j

\* C3: a submission whose number of selections differs from the mealsPerDay
\* of the customer's active subscription is rejected with VALIDATION_ERROR
\* and persists no order.
C3_PlanMismatchRejected ==
  [][\A cred \in CustomerCreds, body \in Bodies :
       (/\ subscriptions[cred.userId].kind = "sub"
        /\ subscriptions[cred.userId].status = "active"
        /\ Len(body.selections) # subscriptions[cred.userId].mealsPerDay
        /\ CreateOrder(cred, body))
       => /\ resp'.out.code = "VALIDATION_ERROR"
          /\ orders' = orders]_vars

\* C4: a submission by a customer without a subscription, or whose
\* subscription is not active, fails with NO_ACTIVE_SUBSCRIPTION and persists
\* no order.
C4_NoActiveSubscriptionRejected ==
  [][\A cred \in CustomerCreds, body \in Bodies :
       (/\ FindCustomer(cred.userId, cred.restaurantId)
        /\ \/ subscriptions[cred.userId].kind = "none"
           \/ subscriptions[cred.userId].status # "active"
        /\ CreateOrder(cred, body))
       => /\ resp'.out.code = "NO_ACTIVE_SUBSCRIPTION"
          /\ orders' = orders]_vars

\* C5: no persisted order of a customer whose plan has includesSnack = FALSE
\* carries a snack.
C5_NoSnackWithoutPlan ==
  \A i \in 1..Len(orders) :
     LET sub == subscriptions[orders[i].customerId]
     IN (sub.kind = "sub" /\ ~sub.includesSnack) => orders[i].snackMeal = NoMeal

MealFits(mealId, restaurantId, category) ==
  /\ mealId \in DOMAIN Meals
  /\ Meals[mealId].restaurantId = restaurantId
  /\ Meals[mealId].category = category

\* C6: every meal a persisted order refers to exists in the catalog, belongs
\* to the order's restaurant and has the category of its position.
C6_MealReferencesValid ==
  \A i \in 1..Len(orders) :
     /\ \A k \in 1..Len(orders[i].selections) :
          /\ MealFits(orders[i].selections[k].proteinMeal, orders[i].restaurantId, "protein")
          /\ MealFits(orders[i].selections[k].carbMeal, orders[i].restaurantId, "carb")
     /\ orders[i].snackMeal # NoMeal
          => MealFits(orders[i].snackMeal, orders[i].restaurantId, "snack")

\* C7: of the notify calls made one after the other on an order, the first
\* answers alreadyNotified = FALSE, every later one alreadyNotified = TRUE,
\* and once a call was made exactly one order_ready notification exists.
C7_NotifyTwiceInSequence ==
  \A id \in 1..Len(notifyLog) :
     LET log == notifyLog[id]
     IN /\ Len(log) >= 1 => log[1] = FALSE
        /\ \A k \in 2..Len(log) : log[k] = TRUE
        /\ Len(log) >= 1 => Cardinality(ReadyNotificationsFor(notifications, id)) = 1

C7_Witness ==
  \E id \in 1..Len(notifyLog) :
     /\ notifyLog[id] = <<FALSE, TRUE>>
     /\ resp.op = "notify" /\ resp.target = "own"
     /\ resp.out.data = [alreadyNotified |-> TRUE,
                         notification |-> FindNotification(notifications, id, orders[id].customerId)]

\* C8: under every interleaving of notify requests at most one order_ready
\* notification exists per order.
C8_OneReadyNotificationPerOrder ==
  \A id \in 1..Len(orders) : Cardinality(ReadyNotificationsFor(notifications, id)) <= 1

C10_StatusNeverBackward ==
  [][\A i \in 1..Len(orders) : Rank(orders'[i].status) >= Rank(orders[i].status)]_vars

\* C11: an order_ready notification is created only for an order whose
\* status is ready or later at the time of the call.
C11_NotifyOnlyWhenReady ==
  [][Len(notifications') > Len(notifications)
       => Rank(orders[notifications'[Len(notifications')].orderId].status) >= Rank("ready")]_vars

\* C12: the macro targets stored on an order are the daily macro targets of
\* the customer's subscription, not a value the client sent.
C12_MacroTargetsFromSubscription ==
  \A i \in 1..Len(orders) :
     LET sub == subscriptions[orders[i].customerId]
     IN sub.kind = "sub" => orders[i].macroTargets = sub.macros

\* C13: the orders of one restaurant carry strictly increasing order numbers
\* in the order of their creation, so no two of them share a number.
C13_OrderNumbersIncrease ==
  \A i, j \in 1..Len(orders) :
     (i < j /\ orders[i].restaurantId = orders[j].restaurantId)
       => ParseInt(orders[i].orderNumber) < ParseInt(orders[j].orderNumber)

C13_Witness ==
  /\ Len(orders) = 2
  /\ orders[1].restaurantId = orders[2].restaurantId
  /\ orders[1].orderNumber = <<0, 0, 0, 1>>
  /\ orders[2].orderNumber = <<0, 0, 0, 2>>
  /\ resp.op = "createOrder" /\ resp.out.http = 201

\* C14: the order a createOrder request persists carries the restaurant and
\* the customer of the request's credential and status received, whatever
\* restaurantId, customerId or status the body carries.
C14_OrderFromCredential ==
  (call.op = "createOrder" /\ resp.out.http = 201)
    => LET o == orders[Len(orders)]
       IN /\ o.restaurantId = call.user.restaurantId
          /\ o.customerId = call.user.userId
          /\ o.status = "received"

C14_Witness ==
  /\ call.op = "createOrder" /\ resp.out.http = 201
  /\ call.user.userId = "c1"
  /\ call.body.restaurantId = "t2" /\ call.body.customerId = "c2"
  /\ call.body.status = "completed"
  /\ orders[Len(orders)].restaurantId = "t1"
  /\ orders[Len(orders)].customerId = "c1"
  /\ orders[Len(orders)].status = "received"

C16_RoleGuards ==
  \A header \in Headers :
     LET a == authMiddleware(header)
         create == postOrder(orders, header, PlainBody(header.user.restaurantId),
                             today, nodeEnv)
     IN /\ ~a.next => create.out.http = 401 /\ create.orders = orders
        /\ (a.next /\ a.user.role # "customer")
             => create.out.http = 403 /\ create.orders = orders
        /\ create.orders # orders => a.next /\ a.user.role = "customer"
        /\ \A id \in OrderIds :
             LET notify == postNotify(orders, notifications, header, id, nodeEnv)
             IN /\ ~a.next => notify.out.http = 401 /\ notify.notifications = notifications
                /\ (a.next /\ a.user.role # "admin")
                     => notify.out.http = 403 /\ notify.notifications = notifications
                /\ notify.notifications # notifications
                     => /\ a.next /\ a.user.role = "admin"
                        /\ orders[id].restaurantId = a.user.restaurantId
                /\ \A st \in RouteStatusInputs :
                     LET patch == patchStatus(orders, header, id, st, nodeEnv)
                     IN /\ ~a.next => patch.out.http = 401 /\ patch.orders = orders
                        /\ (a.next /\ a.user.role # "admin")
                             => patch.out.http = 403 /\ patch.orders = orders
                        /\ patch.orders # orders
                             => /\ a.next /\ a.user.role = "admin"
                                /\ orders[id].restaurantId = a.user.restaurantId

C16_Witness ==
  /\ resp.op = "updateStatus"
  /\ resp.out.http = 403 /\ resp.out.code = "FORBIDDEN"
  /\ \E i \in 1..Len(orders) : orders[i].status = "ready"
  /\ Len(notifications) > 0

\* C17: after setProtein(i, X) on a slot of the draft, the slot holds protein
\* X and no carb, whichever carb it held before.
C17_SetProteinClearsCarb ==
  (call.op = "setProtein" /\ HasSlot(draft, call.index))
    => draft.selections[call.index + 1] = Slot(call.meal, NoMeal)

C17_Witness ==
  /\ call.op = "setProtein"
  /\ call.index = MaxMealsPerDay - 1
  /\ call.carbBefore = "C1"
  /\ draft.selections[call.index + 1] = Slot(call.meal, NoMeal)

\* C18: for a draft of 1 to 5 slots isOrderComplete holds exactly when every
\* slot has both its protein and its carb, whatever selectedSnack and
\* snackSkipped are.
C18_CompleteIffAllSlotsSet ==
  Len(draft.selections) \in 1..MaxMealsPerDay
    => /\ isOrderComplete(draft)
            <=> \A k \in 1..Len(draft.selections) :
                   /\ draft.selections[k].protein # NoMeal
                   /\ draft.selections[k].carb # NoMeal
       /\ \A snack \in SnackInputs \cup {NoMeal}, skipped \in BOOLEAN :
            isOrderComplete([draft EXCEPT !.selectedSnack = snack, !.snackSkipped = skipped])
              = isOrderComplete(draft)

C18_Witness ==
  /\ Len(draft.selections) = MaxMealsPerDay
  /\ isOrderComplete(draft)
  /\ draft.selectedSnack = NoMeal
  /\ ~draft.snackSkipped

\* C19: a createOrder that fails writes nothing: orders and notifications
\* after the failed call are those before it.
C19_FailedCreateWritesNothing ==
  [][(resp'.op = "createOrder" /\ resp'.out.http # 201)
       => orders' = orders /\ notifications' = notifications]_vars

C19_Witness ==
  /\ resp.op = "createOrder"
  /\ resp.out = errorHandler(DuplicateKeyError, nodeEnv)
  /\ Len(orders) = 1

\* C20: the current meal index grows only by one, and only from a slot that
\* is complete and not the last.
C20_AdvanceOnlyFromCompleteSlot ==
  [][home'.currentMealIndex > home.currentMealIndex
       => /\ home'.currentMealIndex = home.currentMealIndex + 1
          /\ isMealComplete(draft, home.currentMealIndex) = "true"
          /\ ~isLastMeal(home)]_vars

C20_Witness ==
  /\ call.op = "proceedToNextMeal"
  /\ home.currentMealIndex = call.from + 1
  /\ home.currentMealIndex = home.totalMeals - 1
  /\ isMealComplete(draft, call.from) = "true"

\* C21: the snack step is entered only from the last slot, complete, of a
\* plan with a snack; under a plan without a snack the step is never
\* entered and every forward click at the last complete slot opens review.
C21_SnackStepOnlyWithSnackPlan ==
  [][/\ (~home.isSnackStep /\ home'.isSnackStep)
          => /\ home.snackIncluded
             /\ isLastMeal(home)
             /\ isMealComplete(draft, home.currentMealIndex) = "true"
     /\ home'.isSnackStep => home'.snackIncluded
     /\ (/\ home.route = "home" /\ ~home.snackIncluded /\ isLastMeal(home)
         /\ isMealComplete(draft, home.currentMealIndex) = "true"
         /\ call'.op \in {"proceedToNextMeal", "proceedToSnack", "proceedToReview",
                          "selectSnack", "skipSnack"})
          => home'.route = "review" /\ call'.op = "proceedToReview"]_vars

C21_Witness ==
  /\ call.op = "proceedToSnack"
  /\ home.isSnackStep
  /\ home.snackIncluded
  /\ home.currentMealIndex = MaxHomeMeals - 1
  /\ isMealComplete(draft, home.currentMealIndex) = "true"

\* C22: going back leads from the snack step to the last slot and from slot
\* i > 0 to slot i - 1, does nothing at slot 0 outside the snack step, never
\* touches the draft, and the index stays within 0..mealsPerDay-1.
C22_GoBackOneStep ==
  [][/\ call'.op = "goBackToPreviousMeal"
          => /\ draft' = draft
             /\ ~home'.isSnackStep
             /\ home.isSnackStep => home'.currentMealIndex = Len(draft.selections) - 1
             /\ (~home.isSnackStep /\ home.currentMealIndex > 0)
                  => home'.currentMealIndex = home.currentMealIndex - 1
     /\ (~home.isSnackStep /\ home.currentMealIndex = 0) => goBackToPreviousMeal(home) = home
     /\ home'.route = "home" => home'.currentMealIndex \in 0..(Len(draft'.selections) - 1)]_vars

C22_Witness ==
  /\ call.op = "goBackToPreviousMeal"
  /\ call.fromSnack
  /\ ~home.isSnackStep
  /\ home.currentMealIndex = MaxHomeMeals - 1
  /\ draft.selections[MaxHomeMeals] = Slot("P2", "C1")

\* C23: from the snack step selectSnack(item) and skipSnack() both open
\* review; the first leaves the item as the snack, the second leaves no snack
\* and the skipped flag set; neither changes a meal slot.
C23_SnackStepEndsAtReview ==
  [][/\ call'.op = "selectSnack"
          => /\ home.isSnackStep
             /\ home'.route = "review"
             /\ draft'.selectedSnack = call'.meal
             /\ draft'.selections = draft.selections
     /\ call'.op = "skipSnack"
          => /\ home.isSnackStep
             /\ home'.route = "review"
             /\ draft'.selectedSnack = NoMeal
             /\ draft'.snackSkipped
             /\ draft'.selections = draft.selections]_vars

C23_Witness ==
  /\ call.op = "skipSnack"
  /\ home.route = "review"
  /\ draft.selectedSnack = NoMeal
  /\ draft.snackSkipped
  /\ Len(draft.selections) = MaxHomeMeals
  /\ isOrderComplete(draft)

\* C24: no operation removes an order, and every order keeps its restaurant,
\* customer, number, date, selections, snack and macro targets; only its
\* status may differ after a step.
C24_OrdersImmutableButStatus ==
  [][/\ Len(orders') >= Len(orders)
     /\ \A i \in 1..Len(orders) :
          orders'[i] = [orders[i] EXCEPT !.status = orders'[i].status]]_vars

C24_Witness ==
  /\ resp.op = "updateStatus"
  /\ resp.out.http = 200
  /\ Len(orders) = MaxOrders
  /\ orders[1].status = "completed"
  /\ orders[1].macroTargets = ReviewGoals
  /\ Len(notifications) > 0

\* C25: markAsRead sets isRead of the notification whose id, customer and
\* restaurant are those of the call and changes nothing else; with the id of
\* another customer's or restaurant's notification, or of none, it fails and
\* writes nothing; a second call leaves what the first left.
C25_MarkAsReadOwnOnly ==
  [][resp'.op = "markAsRead"
       => LET id == call'.id
              own == /\ id \in 1..Len(notifications)
                     /\ notifications[id].customerId = call'.user.userId
                     /\ notifications[id].restaurantId = call'.user.restaurantId
          IN /\ orders' = orders
             /\ own => /\ resp'.out.http = 200
                       /\ notifications' = [notifications EXCEPT ![id].isRead = TRUE]
             /\ ~own => /\ resp'.out.http # 200
                        /\ notifications' = notifications
             /\ markAsRead(notifications', id, call'.user.userId, call'.user.restaurantId,
                           nodeEnv).notifications = notifications']_vars

C25_Witness ==
  /\ resp.op = "markAsRead"
  /\ resp.out.http = 200
  /\ Len(notifications) = MaxOrders
  /\ notifications[call.id].isRead
  /\ \E i \in 1..Len(notifications) : ~notifications[i].isRead

\* C26: while the carb fetch issued last is in flight the list is shown as
\* loading, and once no carb fetch is in flight the list on display is the
\* one answered to the fetch issued last.
C26_LatestFetchWins ==
  home.route = "home"
    => /\ (\E p \in Procs : reqs[p] # Idle /\ reqs[p].latest) => home.loadingCarb
       /\ (\A p \in Procs : reqs[p] = Idle) => home.carbMeals \in {"none", "latest"}

\* C27: whatever orders the other restaurant holds, createOrder by a
\* customer who has a user document in their restaurant gets an order number
\* and stores the order (201).
C27_NumberingPerTenant ==
  \A cred \in CustomerCreds :
    FindCustomer(cred.userId, cred.restaurantId)
      => createOrder(orders, cred.userId, cred.restaurantId, PlainBody(cred.restaurantId),
                     today, nodeEnv).out.http = 201

\* C28: for every visit to the my-orders view, once the view is destroyed
\* its poll issues no further request for the current order.
C28_NoPollAfterDestroy ==
  \A i \in 1..Len(polling.subs) : polling.subs[i].destroyed => ~polling.subs[i].late

\* C29: a draft without slots, as constructed or after reset(), is not
\* reported complete, and the review screen sends it back.
C29_EmptyDraftIncomplete ==
  Len(draft.selections) = 0
    => /\ ~isOrderComplete(draft)
       /\ openReview(home, draft).route # "review"

\* C30: right after initSelections(n) the draft has n empty slots and no
\* snack, so the three totals and the count of selections are 0; at any time
\* the totals are the sums over the chosen proteins and carbs plus the snack.
C30_InitGivesEmptyDraft ==
  /\ call.op = "initSelections"
       => /\ Len(draft.selections) = call.mealsPerDay
          /\ \A k \in 1..Len(draft.selections) : draft.selections[k] = Slot(NoMeal, NoMeal)
          /\ draft.selectedSnack = NoMeal
          /\ totalCalories(draft) = 0
          /\ totalProtein(draft) = 0
          /\ totalCarbs(draft) = 0
          /\ completedSelectionsCount(draft) = 0
  /\ \A f \in {"proteinGrams", "carbsGrams", "calories"} :
       (CASE f = "proteinGrams" -> totalProtein(draft)
          [] f = "carbsGrams" -> totalCarbs(draft)
          [] OTHER -> totalCalories(draft))
         = SumSlots(draft.selections, f) + Amount(draft.selectedSnack, f)

====
